---------------------------- MODULE Spec2Model ----------------------------
(***************************************************************************)
(* A model of the inline-test-injection engine of doc-detective/ai-tools:  *)
(*   - the batch mutator     (format-utils.mjs: batchUpdateContent),       *)
(*   - the assignment engine (inject-inline.mjs: matchStepsToContent),     *)
(*   - the injection run     (inject-inline.mjs: injectInlineTests),       *)
(*   - the step serializer   (format-utils.mjs: serializeStepToInline),    *)
(*   - the placement of one test, which runs the scan, the engine,         *)
(*     generateUpdates and the mutator one after the other.                *)
(*   - the scan              (inject-inline.mjs: findContentMatches),      *)
(*   - the syntax detection  (format-utils.mjs: detectSyntaxFormat),       *)
(* and of two tools of its MCP server:                                     *)
(*   - the inject tool       (tools/inject.ts: injectComments),            *)
(*   - the execute tool      (tools/execute: runDocDetective).             *)
(* Text is a sequence of one-character strings.  Offsets are 0-based, as   *)
(* in the source; At(c, pos) reads c[pos] the way JavaScript does.         *)
(* Scores are the source's floating-point scores times Scale, so that all  *)
(* the values the model reaches are integers.                              *)
(***************************************************************************)
EXTENDS Integers, Sequences, FiniteSets, TLC

VARIABLES
    \* batchUpdateContent
    content,        \* the `content` argument (the original document)
    updates,        \* the `updates` argument, in the caller's order
    sortedUpdates,  \* the local copy, sorted by offset descending
    result,         \* the local `result`
    origin,         \* history: for each character of `result`, the 0-based
                    \* index it had in `content`, or -id for a character
                    \* inserted for the update with that id
    bk,             \* position of the for-of loop in sortedUpdates (1-based)
    bpc,            \* "off" | "idle" | "loop" | "done"
    \* matchStepsToContent
    steps,          \* the `steps` argument
    contentMatches, \* the `contentMatches` argument
    matchedSteps,   \* the local `matchedSteps`: one entry per processed step
    usedMatches,    \* the local `usedMatches`: indexes of the bound matches
    mi,             \* the loop variable `i` (0-based)
    mpc,            \* "off" | "loop" | "done"
    \* injectInlineTests
    file,           \* the content of the source file on disk
    original,       \* history: the content of the source file before the run
    writes,         \* history: how many times the run wrote the source file
    apply,          \* options.apply
    spec,           \* the tests of the parsed spec
    config,         \* the loaded config: its custom patterns
    patterns,       \* the local `patterns`
    sourceContent,  \* the local `sourceContent`
    found,          \* the local `contentMatches`
    allUpdates,     \* the local `allUpdates`
    ti,             \* position of the loop over the tests (0-based)
    bound,          \* history: for each processed test, the indexes of the
                    \* content matches its steps were bound to
    ipc,            \* "off" | "parseSpec" | "readSource" | "loadConfig" |
                    \* "patterns" | "scan" | "tests" | "finish" | "done" | "failed"
    \* serializeStepToInline
    sstep,          \* options.step: the fields of the step object, in key order
    sformat,        \* options.commentFormat
    ssyntax,        \* options.syntaxFormat
    sout,           \* the returned string
    spc,            \* "off" | "call" | "returned" | "thrown"
    \* findContentMatches, called twice with the same pattern objects
    sdoc,           \* the `content` argument
    spats,          \* the `patterns` argument
    lastIndex,      \* regex.lastIndex of the regex object of each pattern
    sp,             \* position of the loop over the patterns (1-based)
    smatches,       \* the local `matches`
    scall,          \* history: 1 in the first call, 2 in the second
    sfirst,         \* history: what the first call returned
    scpc,           \* "off" | "reset" | "exec" | "sort" | "done"
    \* injectComments of the MCP inject tool
    mcpSpec,        \* spec.tests: the steps of each test
    mcpFormat,      \* the `format` argument
    mcpSyntax,      \* the `syntax` argument
    stepsToInject,  \* the steps that have a pattern
    modifiedContent, \* the lines of the local `modifiedContent`
    commentsAdded,  \* the local `commentsAdded`
    sk,             \* position of the loop over stepsToInject (0-based)
    jpc,            \* "off" | "build" | "loop" | "done"
    \* runDocDetective of the MCP execute tool
    proc,           \* the child: "off" | "spawning" | "failed" | "running" | "killed" | "exited" | "closed"
    exitCode,       \* the `code` of the close event: "none" | "0" | "1" | "null"
    stdout,         \* the number of chunks appended to `stdout`
    stderr,         \* the number of chunks appended to `stderr`
    spawnTimer,     \* the timer of spawn's timeout option: "off" | "armed" | "fired" | "cleared"
    timer,          \* the timer of line 168: "off" | "armed" | "fired"
    promise,        \* the state of the returned promise: "pending" or its value
    resolveCalls,   \* history: the number of calls of resolve
    firstOutcome,   \* history: the argument of the first call of resolve
    openAtTimeout   \* history: a timer fired while the child had not closed

batchVars == <<content, updates, sortedUpdates, result, origin, bk, bpc>>
matchVars == <<steps, contentMatches, matchedSteps, usedMatches, mi, mpc>>

injectVars ==
    <<file, original, writes, apply, spec, config, patterns, sourceContent, found,
      allUpdates, ti, bound, ipc>>

serialVars == <<sstep, sformat, ssyntax, sout, spc>>

scanVars == <<sdoc, spats, lastIndex, sp, smatches, scall, sfirst, scpc>>

mcpVars ==
    <<mcpSpec, mcpFormat, mcpSyntax, stepsToInject, modifiedContent, commentsAdded, sk, jpc>>

execVars ==
    <<proc, exitCode, stdout, stderr, spawnTimer, timer, promise, resolveCalls,
      firstOutcome, openAtTimeout>>

vars == <<batchVars, matchVars, injectVars, serialVars, scanVars, mcpVars, execVars>>

-----------------------------------------------------------------------------
(* Bounds of the model *)

MaxLines == 2
MaxUpdates == 2
MaxSteps == 3
MaxMatches == 2
MaxTests == 2
MaxFields == 3
MaxFound == 4
MaxChunks == 2

-----------------------------------------------------------------------------
(* Text helpers *)

NL == "\n"
SP == " "
TAB == "\t"
UNDEF == "undefined"

Min(a, b) == IF a < b THEN a ELSE b
Max(a, b) == IF a > b THEN a ELSE b

\* content[pos] of JavaScript: undefined outside the string
At(c, pos) == IF pos >= 0 /\ pos < Len(c) THEN c[pos + 1] ELSE UNDEF

\* String.prototype.substring(a, b): both ends clamped to [0, length]
Clamp(c, n) == Max(0, Min(n, Len(c)))
Substring(c, a, b) ==
    LET lo == Min(Clamp(c, a), Clamp(c, b))
        hi == Max(Clamp(c, a), Clamp(c, b))
    IN  SubSeq(c, lo + 1, hi)

RECURSIVE ScanBack(_, _)
ScanBack(c, pos) ==
    IF pos >= 0 /\ At(c, pos) # NL THEN ScanBack(c, pos - 1) ELSE pos

findLineStart(c, offset) == ScanBack(c, offset - 1) + 1

RECURSIVE ScanFwd(_, _)
ScanFwd(c, pos) ==
    IF pos < Len(c) /\ At(c, pos) # NL THEN ScanFwd(c, pos + 1) ELSE pos

findLineEnd(c, offset) ==
    LET pos == ScanFwd(c, offset)
    IN  IF pos < Len(c) /\ At(c, pos) = NL THEN pos + 1 ELSE pos

RECURSIVE getLineIndentation(_, _)
getLineIndentation(c, lineStart) ==
    IF lineStart < Len(c) /\ (At(c, lineStart) = SP \/ At(c, lineStart) = TAB)
    THEN <<At(c, lineStart)>> \o getLineIndentation(c, lineStart + 1)
    ELSE <<>>

-----------------------------------------------------------------------------
(* batchUpdateContent *)

\* Array.prototype.sort is stable; the comparator is b.offset - a.offset
RECURSIVE InsertDesc(_, _)
InsertDesc(u, s) ==
    IF s = <<>> THEN <<u>>
    ELSE IF Head(s).offset >= u.offset THEN <<Head(s)>> \o InsertDesc(u, Tail(s))
    ELSE <<u>> \o s

\* the list left in the caller's order
SortNone(s) == s

RECURSIVE SortDesc(_)
SortDesc(s) ==
    IF s = <<>> THEN <<>>
    ELSE InsertDesc(s[Len(s)], SortDesc(SubSeq(s, 1, Len(s) - 1)))

\* where one update splices its text into `res`
InsertPos(res, u) ==
    IF u.insertAfter THEN findLineEnd(res, u.offset)
    ELSE findLineStart(res, u.offset)

\* the text one update splices in: indent + newContent + '\n'
InsertText(res, u) ==
    getLineIndentation(res, findLineStart(res, u.offset)) \o u.newContent \o <<NL>>

\* the text written over the character at pos
SpliceOver(res, pos, ins) ==
    Substring(res, 0, pos) \o ins \o Substring(res, pos + 1, Len(res))

\* before + inserted + after
Splice(res, pos, ins) ==
    Substring(res, 0, pos) \o ins \o Substring(res, pos, Len(res))

\* one iteration of the for-of loop
ApplyUpdate(res, u) == Splice(res, InsertPos(res, u), InsertText(res, u))

RECURSIVE ApplyAll(_, _)
ApplyAll(res, us) ==
    IF us = <<>> THEN res ELSE ApplyAll(ApplyUpdate(res, Head(us)), Tail(us))

batchUpdateContent(c, us) ==
    IF Len(us) = 0 THEN c ELSE ApplyAll(c, SortDesc(us))

-----------------------------------------------------------------------------
(* Inputs of the batch mutator *)

\* the lines of the documents: one not indented, one indented
LineShapes == {<<"a">>, <<SP, "a", "b">>}

\* the rendered text of an update: an annotation of two lines
NewContents == {<<"X", NL, "Y">>}

RECURSIVE SeqsUpTo(_, _)
SeqsUpTo(S, n) ==
    IF n = 0 THEN {<<>>}
    ELSE LET shorter == SeqsUpTo(S, n - 1)
         IN  shorter \cup {Append(s, x) : s \in {t \in shorter : Len(t) = n - 1}, x \in S}

RECURSIVE JoinLines(_)
JoinLines(ls) ==
    IF ls = <<>> THEN <<>>
    ELSE IF Len(ls) = 1 THEN ls[1]
    ELSE ls[1] \o <<NL>> \o JoinLines(Tail(ls))

Docs ==
    {JoinLines(ls) \o t : ls \in SeqsUpTo(LineShapes, MaxLines) \ {<<>>}, t \in {<<>>, <<NL>>}}

\* the offsets reach one position past either end of the document
UpdateOps(c) ==
    [offset : (0 - 1)..(Len(c) + 1), newContent : NewContents, insertAfter : BOOLEAN]

\* the caller's list; each update carries its position in that list as its id
UpdateLists(c) ==
    {[i \in 1..Len(s) |-> [offset |-> s[i].offset, newContent |-> s[i].newContent,
                           insertAfter |-> s[i].insertAfter, id |-> i]]
        : s \in SeqsUpTo(UpdateOps(c), MaxUpdates)}

\* the component is not running
BatchIdle ==
    /\ content = <<>> /\ updates = <<>> /\ sortedUpdates = <<>>
    /\ result = <<>> /\ origin = <<>> /\ bk = 1 /\ bpc = "off"

MatchIdle ==
    /\ steps = <<>> /\ contentMatches = <<>> /\ matchedSteps = <<>>
    /\ usedMatches = {} /\ mi = 0 /\ mpc = "off"

InjectIdle ==
    /\ file = <<>> /\ original = <<>> /\ writes = 0 /\ apply = FALSE
    /\ spec = <<>> /\ config = "none" /\ patterns = <<>>
    /\ sourceContent = <<>> /\ found = <<>>
    /\ allUpdates = <<>> /\ ti = 0 /\ bound = <<>> /\ ipc = "off"

SerialIdle ==
    sstep = <<>> /\ sformat = "none" /\ ssyntax = "none" /\ sout = <<>> /\ spc = "off"

ScanIdle ==
    /\ sdoc = <<>> /\ spats = <<>> /\ lastIndex = <<>> /\ sp = 1
    /\ smatches = <<>> /\ scall = 1 /\ sfirst = <<>> /\ scpc = "off"

McpIdle ==
    /\ mcpSpec = <<>> /\ mcpFormat = "none" /\ mcpSyntax = "none" /\ stepsToInject = <<>>
    /\ modifiedContent = <<>> /\ commentsAdded = 0 /\ sk = 0 /\ jpc = "off"

ExecIdle ==
    /\ proc = "off" /\ exitCode = "none" /\ stdout = 0 /\ stderr = 0
    /\ spawnTimer = "off" /\ timer = "off" /\ promise = "pending"
    /\ resolveCalls = 0 /\ firstOutcome = "pending" /\ openAtTimeout = FALSE

BatchInit ==
    /\ content \in Docs
    /\ updates \in UpdateLists(content)
    /\ sortedUpdates = <<>>
    /\ result = <<>>
    /\ origin = <<>>
    /\ bk = 1
    /\ bpc = "idle"
    /\ MatchIdle
    /\ InjectIdle
    /\ SerialIdle
    /\ ScanIdle
    /\ McpIdle
    /\ ExecIdle

\* lines 338-343: the early return, the sorted copy, result = content
BatchStart ==
    /\ bpc = "idle"
    /\ result' = content
    /\ origin' = [p \in 1..Len(content) |-> p - 1]
    /\ IF Len(updates) = 0
       THEN sortedUpdates' = <<>> /\ bpc' = "done"
       ELSE sortedUpdates' = SortDesc(updates) /\ bpc' = "loop"
    /\ bk' = 1
    /\ UNCHANGED <<content, updates>>
    /\ UNCHANGED <<matchVars, injectVars, serialVars, scanVars, mcpVars, execVars>>

\* lines 345-366: one iteration of the loop
BatchApply ==
    /\ bpc = "loop"
    /\ bk <= Len(sortedUpdates)
    /\ LET u == sortedUpdates[bk]
           ins == InsertText(result, u)
           pos == InsertPos(result, u)
       IN  /\ result' = ApplyUpdate(result, u)
           /\ origin' = Splice(origin, pos, [p \in 1..Len(ins) |-> 0 - u.id])
    /\ bk' = bk + 1
    /\ UNCHANGED <<content, updates, sortedUpdates, bpc>>
    /\ UNCHANGED <<matchVars, injectVars, serialVars, scanVars, mcpVars, execVars>>

\* line 368: return result
BatchReturn ==
    /\ bpc = "loop"
    /\ bk > Len(sortedUpdates)
    /\ bpc' = "done"
    /\ UNCHANGED <<content, updates, sortedUpdates, result, origin, bk>>
    /\ UNCHANGED <<matchVars, injectVars, serialVars, scanVars, mcpVars, execVars>>

BatchNext == BatchStart \/ BatchApply \/ BatchReturn

SpecBatch == BatchInit /\ [][BatchNext]_vars

-----------------------------------------------------------------------------
(* Claims about the batch mutator *)

\* position `o` of `result` is still position `o` of the original document:
\* nothing has been inserted at or before it
StillDesignates(o) ==
    \A p \in 1..Min(o + 1, Len(content)) : p <= Len(origin) /\ origin[p] = p - 1

\* C1: when an operation is applied, its offset still designates the
\* character (and so the line) of the original document it designated before
\* any insertion of the pass, for every number and mix of operations.
C1_OffsetsStayValid ==
    (bpc = "loop" /\ bk <= Len(sortedUpdates))
        => StillDesignates(sortedUpdates[bk].offset)

\* the positions of `result` that hold the text inserted for update u
Segment(u) == {p \in 1..Len(result) : origin[p] = 0 - u.id}

\* the offset lies outside the document
OutOfBounds(u) == u.offset < 0 \/ u.offset > Len(content)

AllInBounds == \A i \in 1..Len(updates) : ~OutOfBounds(updates[i])

NonConflicting ==
    \A i, j \in 1..Len(updates) :
        i # j => findLineStart(content, updates[i].offset)
                    # findLineStart(content, updates[j].offset)

\* the text of update u sits once, contiguously, on a line of its own that is
\* directly after (insertAfter) or directly before the original line of its offset
PlacedNextToLine(u) ==
    LET seg == Segment(u)
        ls == findLineStart(content, u.offset)
        le == findLineEnd(content, u.offset)
    IN  /\ seg # {}
        /\ LET a == CHOOSE p \in seg : \A q \in seg : p <= q
               b == CHOOSE p \in seg : \A q \in seg : q <= p
           IN  /\ seg = a..b
               /\ b - a + 1 >= Len(u.newContent) + 1
               /\ SubSeq(result, b - Len(u.newContent), b) = u.newContent \o <<NL>>
               /\ a = 1 \/ result[a - 1] = NL
               /\ IF u.insertAfter
                  THEN IF le = 0 THEN a = 1 ELSE a > 1 /\ origin[a - 1] = le - 1
                  ELSE IF ls = Len(content) THEN b = Len(result)
                       ELSE b < Len(result) /\ origin[b + 1] = ls

\* C4: for operations on pairwise distinct lines (offsets inside the document),
\* the returned document holds each operation's text exactly once, on the line
\* directly after the original line of its offset (insertAfter) or directly
\* before it.
C4_EachTextNextToItsLine ==
    (bpc = "done" /\ AllInBounds /\ NonConflicting)
        => \A i \in 1..Len(updates) : PlacedNextToLine(updates[i])


DistinctOffsets ==
    \A i, j \in 1..Len(updates) : i # j => updates[i].offset # updates[j].offset

\* the list `us` in the order given by the permutation f of its indexes
Permuted(us, f) == [i \in 1..Len(us) |-> us[f[i]]]

\* C13: for a list of operations with pairwise distinct offsets,
\* batchUpdateContent returns the same document for every permutation of the
\* list: the document the run returns is the one every reordering returns.
C13_OrderOfInputIrrelevant ==
    (bpc = "done" /\ DistinctOffsets)
        => \A f \in Permutations(1..Len(updates)) :
              batchUpdateContent(content, Permuted(updates, f)) = result

\* two operations on one line, given in ascending order of offset, were applied
C13_Witness ==
    /\ bpc = "done"
    /\ DistinctOffsets
    /\ Len(updates) >= 2
    /\ updates[1].offset < updates[2].offset
    /\ ~OutOfBounds(updates[1]) /\ ~OutOfBounds(updates[2])
    /\ findLineStart(content, updates[1].offset) = findLineStart(content, updates[2].offset)
    /\ updates[1].insertAfter # updates[2].insertAfter
    /\ Len(result) > Len(content)

\* C14: when an operation of the batch has an offset outside the document
\* (negative or greater than its length) the whole batch is aborted: nothing
\* is inserted and no modified document is produced.
C14_OutOfBoundsAbortsBatch ==
    (\E i \in 1..Len(updates) : OutOfBounds(updates[i]))
        => (bpc \in {"loop", "done"} => result = content)

\* the leading whitespace of the line of `content` that contains offset o
OriginalIndentation(o) == getLineIndentation(content, findLineStart(content, o))

\* C18: the text inserted for an operation is the leading whitespace of the
\* ORIGINAL line that contains its offset, then the rendered text, then a
\* newline, for every operation of a batch, also when other operations target
\* the same line or insert annotations of several lines next to it.
C18_IndentationOfOriginalLine ==
    (bpc = "loop" /\ bk <= Len(sortedUpdates) /\ AllInBounds)
        => LET u == sortedUpdates[bk]
           IN  InsertText(result, u)
                  = OriginalIndentation(u.offset) \o u.newContent \o <<NL>>

\* the characters of `res` that `org` marks as characters of the original
RECURSIVE OriginalOnly(_, _)
OriginalOnly(res, org) ==
    IF res = <<>> THEN <<>>
    ELSE (IF Head(org) >= 0 THEN <<Head(res)>> ELSE <<>>)
            \o OriginalOnly(Tail(res), Tail(org))

\* C24: batchUpdateContent only inserts text: deleting the inserted segments
\* from the result yields the original document character for character, the
\* original characters keep their relative order, the result is the original
\* when the list is empty, and the caller's list is neither reordered nor
\* modified.
C24_OnlyInserts ==
    bpc \in {"loop", "done"}
        => /\ Len(origin) = Len(result)
           /\ OriginalOnly(result, origin) = content
           /\ OriginalOnly(origin, origin) = [p \in 1..Len(content) |-> p - 1]
           /\ Len(updates) = 0 => result = content
           /\ \A i \in 1..Len(updates) : updates[i].id = i

\* two operations, given in ascending order of offset, were applied inside the
\* document: an inserted segment lies between original characters
C24_Witness ==
    /\ bpc = "done"
    /\ Len(updates) = 2
    /\ updates[1].offset < updates[2].offset
    /\ sortedUpdates # updates
    /\ \E p \in 2..(Len(result) - 1) :
          origin[p] < 0 /\ origin[p - 1] >= 0
          /\ \E q \in (p + 1)..Len(result) : origin[q] >= 0

\* the first and the last position of the text inserted for update u
SegmentStart(u) == CHOOSE p \in Segment(u) : \A q \in Segment(u) : p <= q
SegmentEnd(u) == CHOOSE p \in Segment(u) : \A q \in Segment(u) : q <= p

\* C26: every annotation inserted by batchUpdateContent occupies a line of its
\* own in the result: it begins at the start of the document or directly after
\* a newline and ends with a newline, also when insertAfter is true and the
\* target line is the last line of a document without a final newline.
C26_AnnotationOnOwnLine ==
    (bpc = "done" /\ AllInBounds)
        => \A i \in 1..Len(updates) :
              LET u == updates[i]
              IN  /\ Segment(u) # {}
                  /\ SegmentStart(u) = 1 \/ result[SegmentStart(u) - 1] = NL
                  /\ result[SegmentEnd(u)] = NL

-----------------------------------------------------------------------------
(* calculateSimilarity *)

\* the scores of the source, times 600
ScoreExact == 600
ScoreContains == 480
ScoreHalf == 300
ScoreAction == 180
ScoreNone == 0
SeqBonus == 120
SeqPenalty == 60
Threshold == 180
NoOffset == -1
Undefined == 0 - 1

Lower(ch) == IF ch = "A" THEN "a" ELSE IF ch = "B" THEN "b" ELSE ch
toLowerCase(s) == [i \in 1..Len(s) |-> Lower(s[i])]

\* String.prototype.includes
Includes(s, t) == \E i \in 0..(Len(s) - Len(t)) : SubSeq(s, i + 1, i + Len(t)) = t

IsSpace(ch) == ch \in {SP, TAB, NL}

\* String.prototype.split(/\s+/)
RECURSIVE SplitWs(_)
SplitWs(s) ==
    IF \A i \in 1..Len(s) : ~IsSpace(s[i]) THEN <<s>>
    ELSE LET i == CHOOSE x \in 1..Len(s) : IsSpace(s[x]) /\ \A y \in 1..(x - 1) : ~IsSpace(s[y])
             rest == SubSeq(s, i + 1, Len(s))
             skip == IF \A x \in 1..Len(rest) : IsSpace(rest[x]) THEN Len(rest)
                     ELSE (CHOOSE x \in 1..Len(rest) :
                              ~IsSpace(rest[x]) /\ \A y \in 1..(x - 1) : IsSpace(rest[y])) - 1
         IN  <<SubSeq(s, 1, i - 1)>> \o SplitWs(SubSeq(rest, skip + 1, Len(rest)))

\* stepWords.filter(w => matchWords.includes(w)).length
CommonWords(stepWords, matchWords) ==
    Cardinality({i \in 1..Len(stepWords) :
                    \E j \in 1..Len(matchWords) : matchWords[j] = stepWords[i]})

\* match.captures[0] || match.matchText
MatchValue(m) == IF m.capture # <<>> THEN m.capture ELSE m.matchText

calculateSimilarity(step, m) ==
    IF step.action = m.action
    THEN LET stepValue == step.value.s
             matchValue == MatchValue(m)
             stepWords == SplitWs(toLowerCase(stepValue))
             matchWords == SplitWs(toLowerCase(matchValue))
             common == CommonWords(stepWords, matchWords)
         IN  IF step.value.kind = "string"
             THEN IF stepValue = matchValue THEN ScoreExact
                  ELSE IF Includes(stepValue, matchValue) \/ Includes(matchValue, stepValue)
                       THEN ScoreContains
                  ELSE IF common > 0
                       THEN (ScoreHalf * common) \div Max(Len(stepWords), Len(matchWords))
                  ELSE ScoreAction
             ELSE ScoreAction
    ELSE ScoreNone

-----------------------------------------------------------------------------
(* matchStepsToContent *)

IsMatched(e) == e.contentMatch # <<>>

\* matchedSteps[matchedSteps.length - 1].contentMatch?.offset ?? -1
LastMatchedOffset(ms) ==
    IF IsMatched(ms[Len(ms)]) THEN ms[Len(ms)].contentMatch[1].offset ELSE NoOffset

\* the sequential bonus or penalty of lines 331-338
SeqAdjust(m, ms) ==
    IF Len(ms) > 0
    THEN IF m.offset > LastMatchedOffset(ms) THEN SeqBonus ELSE 0 - SeqPenalty
    ELSE 0

AdjustedScore(step, m, ms) == calculateSimilarity(step, m) + SeqAdjust(m, ms)

\* { matchIndex: j, ...match }
WithIndex(m, j) ==
    [matchIndex |-> j, action |-> m.action, capture |-> m.capture,
     matchText |-> m.matchText, offset |-> m.offset, endOffset |-> m.endOffset]

BetterOrEqual(score, bestScore) == score >= bestScore

\* line 340: score > bestScore
Better(score, bestScore) == score > bestScore

\* lines 324-344: the loop over the candidates, from index j on
RECURSIVE BestLoop(_, _, _, _, _, _)
BestLoop(step, cms, used, ms, j, best) ==
    IF j >= Len(cms) THEN best
    ELSE IF j \in used THEN BestLoop(step, cms, used, ms, j + 1, best)
    ELSE LET score == AdjustedScore(step, cms[j + 1], ms)
         IN  IF Better(score, best.bestScore)
             THEN BestLoop(step, cms, used, ms, j + 1,
                           [bestMatch |-> <<WithIndex(cms[j + 1], j)>>, bestScore |-> score])
             ELSE BestLoop(step, cms, used, ms, j + 1, best)

AcceptsStrict(best) == best.bestMatch # <<>> /\ best.bestScore > Threshold
AcceptsAny(best) == best.bestMatch # <<>>

\* line 346: bestMatch && bestScore >= 0.3
Accepts(best) == best.bestMatch # <<>> /\ best.bestScore >= Threshold

MarkUsedNot(used, j) == used

\* line 347: usedMatches.add
MarkUsed(used, j) == used \cup {j}

\* lines 356-361
SuggestedOffset(ms) ==
    IF Len(ms) > 0
    THEN IF IsMatched(ms[Len(ms)]) THEN ms[Len(ms)].contentMatch[1].endOffset ELSE 0
    ELSE 0

PushFront(ms, e) == <<e>> \o ms

\* matchedSteps.push
Push(ms, e) == Append(ms, e)

\* lines 320-370: one iteration of the loop over the steps; [ms, used] after it
StepResult(ms, used, step, i, cms) ==
    LET best == BestLoop(step, cms, used, ms, 0, [bestMatch |-> <<>>, bestScore |-> 0])
    IN  IF Accepts(best)
        THEN [used |-> MarkUsed(used, best.bestMatch[1].matchIndex),
              ms |-> Push(ms, [step |-> step, stepIndex |-> i,
                               contentMatch |-> best.bestMatch, score |-> best.bestScore,
                               suggestedOffset |-> Undefined, unmatched |-> FALSE])]
        ELSE [used |-> used,
              ms |-> Push(ms, [step |-> step, stepIndex |-> i,
                               contentMatch |-> <<>>, score |-> Undefined,
                               suggestedOffset |-> SuggestedOffset(ms), unmatched |-> TRUE])]

RECURSIVE MatchFrom(_, _, _, _, _)
MatchFrom(ms, used, ss, i, cms) ==
    IF i >= Len(ss) THEN ms
    ELSE LET r == StepResult(ms, used, ss[i + 1], i, cms)
         IN  MatchFrom(r.ms, r.used, ss, i + 1, cms)

matchStepsToContent(ss, cms) == MatchFrom(<<>>, {}, ss, 0, cms)

\* the indexes of the content matches that the assignments `ms` are bound to
BoundIndexes(ms) ==
    {ms[k].contentMatch[1].matchIndex : k \in {x \in 1..Len(ms) : IsMatched(ms[x])}}

-----------------------------------------------------------------------------
(* Inputs of the assignment engine *)

Str(s) == [kind |-> "string", s |-> s]
Obj == [kind |-> "object", s |-> <<>>]

StepPool ==
    { [action |-> "find", value |-> Str(<<"a">>)],
      [action |-> "find", value |-> Str(<<"a", SP, "b">>)],
      [action |-> "click", value |-> Str(<<"a">>)],
      [action |-> "find", value |-> Obj] }

\* what a pattern found, before its place in the document is known
FoundPool ==
    { [action |-> "find", capture |-> <<"a">>, matchText |-> <<"*", "a", "*">>],
      [action |-> "find", capture |-> <<"b", SP, "a">>, matchText |-> <<"*", "b", SP, "a", "*">>],
      [action |-> "find", capture |-> <<>>, matchText |-> <<"b", SP, "c">>],
      [action |-> "click", capture |-> <<"a">>, matchText |-> <<"*", "a", "*">>] }

Gaps == {0, 2}

\* the matches of one scan, sorted by offset as findContentMatches returns them:
\* the first at offset `from`, each later one `gap` characters after the one
\* before it
RECURSIVE PlaceMatches(_, _, _)
PlaceMatches(raw, from, first) ==
    IF raw = <<>> THEN <<>>
    ELSE LET f == Head(raw).found
             o == IF first THEN from ELSE from + Head(raw).gap
         IN  <<[action |-> f.action, capture |-> f.capture, matchText |-> f.matchText,
                offset |-> o, endOffset |-> o + Len(f.matchText)]>>
             \o PlaceMatches(Tail(raw), o, FALSE)

MatchLists ==
    {PlaceMatches(raw, 0, TRUE) :
        raw \in SeqsUpTo([found : FoundPool, gap : Gaps], MaxMatches)}

\* lines 316-317: matchedSteps = [], usedMatches = new Set()
MatchInit ==
    /\ steps \in SeqsUpTo(StepPool, MaxSteps)
    /\ contentMatches \in MatchLists
    /\ matchedSteps = <<>>
    /\ usedMatches = {}
    /\ mi = 0
    /\ mpc = "loop"
    /\ BatchIdle
    /\ InjectIdle
    /\ SerialIdle
    /\ ScanIdle
    /\ McpIdle
    /\ ExecIdle

\* lines 319-371: one iteration of the loop over the steps
MatchStep ==
    /\ mpc = "loop"
    /\ mi < Len(steps)
    /\ LET r == StepResult(matchedSteps, usedMatches, steps[mi + 1], mi, contentMatches)
       IN  /\ matchedSteps' = r.ms
           /\ usedMatches' = r.used
    /\ mi' = mi + 1
    /\ UNCHANGED <<steps, contentMatches, mpc>>
    /\ UNCHANGED <<batchVars, injectVars, serialVars, scanVars, mcpVars, execVars>>

\* line 373: return matchedSteps
MatchReturn ==
    /\ mpc = "loop"
    /\ mi >= Len(steps)
    /\ mpc' = "done"
    /\ UNCHANGED <<steps, contentMatches, matchedSteps, usedMatches, mi>>
    /\ UNCHANGED <<batchVars, injectVars, serialVars, scanVars, mcpVars, execVars>>

MatchNext == MatchStep \/ MatchReturn

SpecMatch == MatchInit /\ [][MatchNext]_vars

-----------------------------------------------------------------------------
(* Claims about the assignment engine *)

\* the match indexes bound by the entries before entry k
UsedBefore(k) ==
    {matchedSteps[x].contentMatch[1].matchIndex :
        x \in {y \in 1..(k - 1) : IsMatched(matchedSteps[y])}}

\* the entries before entry k
EntriesBefore(k) == SubSeq(matchedSteps, 1, k - 1)

\* the unused candidates of entry k, as 0-based indexes
Candidates(k) == {j \in 0..(Len(contentMatches) - 1) : j \notin UsedBefore(k)}

\* the score the engine gives candidate j when it processes entry k
ScoreAt(k, j) == AdjustedScore(steps[k], contentMatches[j + 1], EntriesBefore(k))

\* the matched entries before entry k
MatchedBefore(k) == {x \in 1..(k - 1) : IsMatched(matchedSteps[x])}

\* the most recent matched entry before entry k (when there is one)
LastAccepted(k) == CHOOSE x \in MatchedBefore(k) : \A y \in MatchedBefore(k) : y <= x

\* C2: no two matched assignments of one call reference the same content match.
C2_NoMatchReuse ==
    \A a, b \in 1..Len(matchedSteps) :
        (a # b /\ IsMatched(matchedSteps[a]) /\ IsMatched(matchedSteps[b]))
            => matchedSteps[a].contentMatch[1].matchIndex
                  # matchedSteps[b].contentMatch[1].matchIndex

\* a later step bound a match although a match already bound scored higher for it
C2_Witness ==
    /\ mpc = "done"
    /\ \E a, b \in 1..Len(matchedSteps) :
          /\ a < b /\ IsMatched(matchedSteps[a]) /\ IsMatched(matchedSteps[b])
          /\ ScoreAt(b, matchedSteps[a].contentMatch[1].matchIndex) > matchedSteps[b].score

\* C27: for every step and every content match with the same action,
\* calculateSimilarity returns at least the 0.3 baseline, so that sharing some
\* words with the match never scores lower than sharing none, and the first
\* step of a list is left unmatched only when no match has its action.
C27_SameActionReachesBaseline ==
    /\ \A k \in 1..Len(matchedSteps) : \A j \in 1..Len(contentMatches) :
          steps[k].action = contentMatches[j].action
              => calculateSimilarity(steps[k], contentMatches[j]) >= ScoreAction
    /\ (Len(matchedSteps) >= 1 /\ ~IsMatched(matchedSteps[1]))
          => \A j \in 1..Len(contentMatches) : contentMatches[j].action # steps[1].action

\* C3: the result has one assignment per input step, in input order: entry k
\* carries steps[k] and stepIndex k, matched or not.
C3_OneEntryPerStepInOrder ==
    /\ Len(matchedSteps) = mi
    /\ mpc = "done" => Len(matchedSteps) = Len(steps)
    /\ \A k \in 1..Len(matchedSteps) :
          matchedSteps[k].step = steps[k] /\ matchedSteps[k].stepIndex = k - 1

\* three steps, one unmatched, two bound against the document order
C3_Witness ==
    /\ mpc = "done"
    /\ Len(steps) = 3
    /\ \E k \in 1..3 : ~IsMatched(matchedSteps[k])
    /\ \E a, b \in 1..3 :
          /\ a < b /\ IsMatched(matchedSteps[a]) /\ IsMatched(matchedSteps[b])
          /\ matchedSteps[a].contentMatch[1].offset > matchedSteps[b].contentMatch[1].offset

\* C6: once an earlier step was matched, a candidate's score is its similarity
\* plus 0.2 when its offset is strictly greater than the offset of the most
\* recent MATCHED assignment (unmatched steps in between skipped), minus 0.1
\* otherwise.  Stated of the score each matched assignment records.
C6_AdjustedAgainstLastAccepted ==
    \A k \in 1..Len(matchedSteps) :
        (IsMatched(matchedSteps[k]) /\ MatchedBefore(k) # {})
            => LET m == matchedSteps[k].contentMatch[1]
                   last == matchedSteps[LastAccepted(k)].contentMatch[1]
               IN  matchedSteps[k].score
                      = calculateSimilarity(steps[k], m)
                          + (IF m.offset > last.offset THEN SeqBonus ELSE 0 - SeqPenalty)

\* C7: an unmatched step's suggestedOffset is the endOffset of the most recent
\* matched step before it (other unmatched steps in between skipped), and 0
\* when no earlier step was matched.
C7_SuggestedAfterLastAccepted ==
    \A k \in 1..Len(matchedSteps) :
        ~IsMatched(matchedSteps[k])
            => matchedSteps[k].suggestedOffset
                  = (IF MatchedBefore(k) # {}
                     THEN matchedSteps[LastAccepted(k)].contentMatch[1].endOffset
                     ELSE 0)

C9_NoActionMismatchBound ==
    \A k \in 1..Len(matchedSteps) :
        IsMatched(matchedSteps[k])
            => matchedSteps[k].contentMatch[1].action = steps[k].action

\* a later step was left unmatched while an unused match of another action
\* had received the sequential bonus
C9_Witness ==
    \E k \in 2..Len(matchedSteps) :
        /\ ~IsMatched(matchedSteps[k])
        /\ IsMatched(matchedSteps[k - 1])
        /\ \E j \in Candidates(k) :
              /\ contentMatches[j + 1].action # steps[k].action
              /\ ScoreAt(k, j) = SeqBonus

\* C10: when several unused matches tie for the highest adjusted score, the one
\* with the smallest start offset is bound.
C10_TieGoesToEarliest ==
    \A k \in 1..Len(matchedSteps) :
        IsMatched(matchedSteps[k])
            => \A j \in Candidates(k) :
                  ScoreAt(k, j) = matchedSteps[k].score
                      => matchedSteps[k].contentMatch[1].offset <= contentMatches[j + 1].offset

\* a step was bound while a later occurrence had the same adjusted score
C10_Witness ==
    \E k \in 1..Len(matchedSteps) :
        /\ IsMatched(matchedSteps[k])
        /\ \E j \in Candidates(k) :
              /\ ScoreAt(k, j) = matchedSteps[k].score
              /\ contentMatches[j + 1].offset > matchedSteps[k].contentMatch[1].offset
              /\ MatchValue(contentMatches[j + 1]) = MatchValue(matchedSteps[k].contentMatch[1])

-----------------------------------------------------------------------------
(* findContentMatches.  The documents of the model are AsciiDoc text over   *)
(* the characters * a b, space and newline; of the AsciiDoc patterns only   *)
(* findOnscreenText, /\*([^*]+)\*/g, can match such text.                  *)

NoMatchEnd == 0 - 1

\* /\*([^*]+)\*/ tried at position pos: the end offset of the match, or NoMatchEnd
StarMatchEnd(c, pos) ==
    IF At(c, pos) = "*" /\ At(c, pos + 1) \notin {"*", UNDEF}
    THEN LET closers == {q \in (pos + 2)..(Len(c) - 1) : At(c, q) = "*"}
         IN  IF closers = {} THEN NoMatchEnd
             ELSE (CHOOSE q \in closers : \A r \in closers : q <= r) + 1
    ELSE NoMatchEnd

\* the while loop of regex.exec from lastIndex on
RECURSIVE ExecLoop(_, _, _)
ExecLoop(c, pattern, from) ==
    LET starts == {p \in from..(Len(c) - 1) : StarMatchEnd(c, p) # NoMatchEnd}
    IN  IF starts = {} THEN <<>>
        ELSE LET p == CHOOSE x \in starts : \A y \in starts : x <= y
                 e == StarMatchEnd(c, p)
             IN  <<[action |-> pattern.action, capture |-> Substring(c, p + 1, e - 1),
                    matchText |-> Substring(c, p, e), offset |-> p, endOffset |-> e]>>
                 \o ExecLoop(c, pattern, e)

PatternMatches(c, pattern) ==
    IF pattern.regex = "star" THEN ExecLoop(c, pattern, 0) ELSE <<>>

RECURSIVE AllPatternMatches(_, _)
AllPatternMatches(c, ps) ==
    IF ps = <<>> THEN <<>>
    ELSE PatternMatches(c, Head(ps)) \o AllPatternMatches(c, Tail(ps))

\* the matches in the order the scan pushed them
KeepScanOrder(s) == s

\* matches.sort((a, b) => a.offset - b.offset), stable
RECURSIVE InsertAsc(_, _)
InsertAsc(m, s) ==
    IF s = <<>> THEN <<m>>
    ELSE IF Head(s).offset <= m.offset THEN <<Head(s)>> \o InsertAsc(m, Tail(s))
    ELSE <<m>> \o s

RECURSIVE SortAsc(_)
SortAsc(s) ==
    IF s = <<>> THEN <<>>
    ELSE InsertAsc(s[Len(s)], SortAsc(SubSeq(s, 1, Len(s) - 1)))

findContentMatches(c, ps) == SortAsc(AllPatternMatches(c, ps))

\* DEFAULT_MARKUP_PATTERNS.asciidoc
AsciidocPatterns ==
    << [name |-> "checkHyperlink", action |-> "checkLink", regex |-> "never"],
       [name |-> "clickOnscreenText", action |-> "click", regex |-> "never"],
       [name |-> "findOnscreenText", action |-> "find", regex |-> "star"] >>

\* config.customPatterns.asciidoc of the config called "custom"
CustomPatterns ==
    << [name |-> "custom", action |-> "click", regex |-> "star"] >>

getMarkupPatterns(cfg) ==
    IF cfg = "custom" THEN AsciidocPatterns \o CustomPatterns ELSE AsciidocPatterns

-----------------------------------------------------------------------------
(* The serializers of format-utils.mjs, for the asciidocComment format and *)
(* the json syntax.  A step object is the sequence of its fields in key    *)
(* order; a value is [kind, s] with s its text.                            *)

NoAction == "none"

\* line 15
EXCLUDED_STEP_KEYS ==
    {"stepId", "description", "unsafe", "outputs", "variables", "breakpoint", "$schema"}

Field(k, v) == [key |-> k, val |-> v]
Num(n) == [kind |-> "number", s |-> <<n>>]
Bool(b) == [kind |-> "boolean", s |-> <<b>>]

\* Object.keys(obj)
Keys(obj) == {obj[i].key : i \in 1..Len(obj)}

\* obj[k], for a key the object has
Get(obj, k) == obj[CHOOSE i \in 1..Len(obj) : obj[i].key = k].val

\* delete obj[k]
Delete(obj, k) == SelectSeq(obj, LAMBDA f : f.key # k)

\* the truthiness of a JavaScript value
Truthy(v) ==
    IF v.kind = "string" THEN v.s # <<>>
    ELSE IF v.kind = "number" THEN v.s # <<"0">>
    ELSE IF v.kind = "boolean" THEN v.s = <<"true">>
    ELSE TRUE

\* obj[k] is truthy
HasTruthy(obj, k) == k \in Keys(obj) /\ Truthy(Get(obj, k))

\* obj[k] === true
IsTrue(obj, k) == k \in Keys(obj) /\ Get(obj, k) = Bool("true")

\* obj[k] && Object.keys(obj[k]).length > 0
HasNonEmpty(obj, k) ==
    /\ HasTruthy(obj, k)
    /\ Get(obj, k).kind \in {"string", "object"}
    /\ Get(obj, k).s # <<>>

\* Object.keys(step).find(key => !EXCLUDED_STEP_KEYS.includes(key))
FindActionKey(obj) ==
    LET free == {i \in 1..Len(obj) : obj[i].key \notin EXCLUDED_STEP_KEYS}
    IN  IF free = {} THEN NoAction
        ELSE obj[CHOOSE i \in free : \A j \in free : i <= j].key

\* the simple form whenever the action is the only non-excluded key
canSerializeAsSimpleIgnoringProps(step, actionKey) ==
    /\ {k \in Keys(step) : k # actionKey /\ k \notin EXCLUDED_STEP_KEYS} = {}
    /\ Get(step, actionKey).kind \in {"string", "number", "boolean"}

\* lines 184-204
canSerializeAsSimple(step, actionKey) ==
    LET nonActionKeys == {k \in Keys(step) : k # actionKey /\ k \notin EXCLUDED_STEP_KEYS}
        hasCommonProps ==
            \/ HasTruthy(step, "stepId") \/ HasTruthy(step, "description")
            \/ IsTrue(step, "unsafe")
            \/ HasNonEmpty(step, "outputs")
            \/ HasNonEmpty(step, "variables")
            \/ IsTrue(step, "breakpoint")
    IN  IF nonActionKeys # {} THEN FALSE
        ELSE IF hasCommonProps THEN FALSE
        ELSE Get(step, actionKey).kind \in {"string", "number", "boolean"}

\* JSON.stringify of a string of the model's characters
Quote(s) == <<"\"">> \o s \o <<"\"">>

\* JSON.stringify of a value; the objects of the model are empty
JsonValue(v) ==
    IF v.kind = "string" THEN Quote(v.s)
    ELSE IF v.kind = "object" THEN <<"{", "}">>
    ELSE v.s

RECURSIVE JsonFields(_)
JsonFields(obj) ==
    IF obj = <<>> THEN <<>>
    ELSE Quote(<<Head(obj).key>>) \o <<":">> \o JsonValue(Head(obj).val)
            \o (IF Len(obj) > 1 THEN <<",">> ELSE <<>>)
            \o JsonFields(Tail(obj))

JsonStringify(obj) == <<"{">> \o JsonFields(obj) \o <<"}">>

\* line 121: /[:#\[\]{}|>!&*?'"]/.test(value) || value.includes('\n')
NeedsYamlQuotes(v) ==
    \E i \in 1..Len(v) :
        v[i] \in {":", "#", "[", "]", "{", "}", "|", ">", "!", "&", "*", "?", "'", "\"", NL}

\* line 122: value.replace(/\\/g, '\\\\').replace(/"/g, '\\"')
RECURSIVE YamlEscape(_)
YamlEscape(v) ==
    IF v = <<>> THEN <<>>
    ELSE (IF Head(v) \in {"\\", "\""} THEN <<"\\", Head(v)>> ELSE <<Head(v)>>)
            \o YamlEscape(Tail(v))

\* lines 120-146: the lines of one entry; the objects of the model are empty
\* and so have no lines of their own
YamlLine(f) ==
    IF f.val.kind = "string"
    THEN IF NeedsYamlQuotes(f.val.s)
         THEN <<f.key, ":", SP>> \o Quote(YamlEscape(f.val.s))
         ELSE <<f.key, ":", SP>> \o f.val.s
    ELSE IF f.val.kind \in {"boolean", "number"} THEN <<f.key, ":", SP>> \o f.val.s
    ELSE <<f.key, ":">>

\* lines 110-116: one attribute
XmlAttr(f) ==
    IF f.val.kind = "string" THEN <<f.key, "=">> \o Quote(f.val.s)
    ELSE IF f.val.kind \in {"boolean", "number"} THEN <<f.key, "=">> \o f.val.s
    ELSE <<f.key, "=">> \o JsonValue(f.val)

\* Array.prototype.join
RECURSIVE Join(_, _)
Join(parts, sep) ==
    IF parts = <<>> THEN <<>>
    ELSE IF Len(parts) = 1 THEN parts[1]
    ELSE parts[1] \o sep \o Join(Tail(parts), sep)

\* lines 107-158
serializeToSyntax(obj, syntaxFormat) ==
    IF syntaxFormat = "xml" THEN Join([i \in 1..Len(obj) |-> XmlAttr(obj[i])], <<SP>>)
    ELSE IF syntaxFormat = "yaml" THEN Join([i \in 1..Len(obj) |-> YamlLine(obj[i])], <<NL>>)
    ELSE JsonStringify(obj)

\* COMMENT_FORMATS.asciidocComment
StepOpen == <<"// (step ">>
StepOpenTrimmed == <<"// (step">>
StepClose == <<")">>
TestOpen == <<"// (test ">>
TestOpenTrimmed == <<"// (test">>
TestClose == <<")">>
TestEndOpen == <<"// (test end">>
TestEndClose == <<")">>

\* content.includes('\n')
IsMultiline(text) == \E i \in 1..Len(text) : text[i] = NL

\* lines 221-222: the clone without sourceLocation
StepToSerialize(step) == Delete(step, "sourceLocation")

\* lines 229-231: no action found
SerializeStepThrows(step) == FindActionKey(StepToSerialize(step)) = NoAction

\* lines 233-239
StepContent(step, syntax) ==
    LET stepToSerialize == StepToSerialize(step)
        actionKey == FindActionKey(stepToSerialize)
    IN  IF canSerializeAsSimple(stepToSerialize, actionKey)
        THEN serializeToSyntax(<<Field(actionKey, Get(stepToSerialize, actionKey))>>, syntax)
        ELSE serializeToSyntax(stepToSerialize, syntax)

\* lines 20-57: stepOpen and stepClose of each format, as written and trimmed
COMMENT_FORMATS ==
    [htmlComment |->
        [stepOpen |-> <<"<!-- step ">>, stepOpenTrimmed |-> <<"<!-- step">>,
         stepClose |-> <<" -->">>, stepCloseTrimmed |-> <<"-->">>],
     jsxComment |->
        [stepOpen |-> <<"{/* step ">>, stepOpenTrimmed |-> <<"{/* step">>,
         stepClose |-> <<" */}">>, stepCloseTrimmed |-> <<"*/}">>],
     xmlProcessingInstruction |->
        [stepOpen |-> <<"<?doc-detective step ">>, stepOpenTrimmed |-> <<"<?doc-detective step">>,
         stepClose |-> <<" ?>">>, stepCloseTrimmed |-> <<"?>">>],
     asciidocComment |->
        [stepOpen |-> StepOpen, stepOpenTrimmed |-> StepOpenTrimmed,
         stepClose |-> StepClose, stepCloseTrimmed |-> StepClose]]

\* lines 241-246
WrapStep(formatConfig, stepContent) ==
    IF IsMultiline(stepContent)
    THEN formatConfig.stepOpenTrimmed \o <<NL>> \o stepContent \o <<NL>>
            \o formatConfig.stepCloseTrimmed
    ELSE formatConfig.stepOpen \o stepContent \o formatConfig.stepClose

\* lines 215-247, for a step that has an action
serializeStepToInline(step, commentFormat, syntaxFormat) ==
    WrapStep(COMMENT_FORMATS[commentFormat], StepContent(step, syntaxFormat))

\* lines 258-276; the tests of the model carry a testId only
serializeTestToInline(test) ==
    LET testToSerialize ==
            IF test.testId # "" THEN <<Field("testId", [kind |-> "string", s |-> <<test.testId>>])>>
            ELSE <<>>
        testContent == serializeToSyntax(testToSerialize, "json")
    IN  IF IsMultiline(testContent)
        THEN TestOpenTrimmed \o <<NL>> \o testContent \o <<NL>> \o TestClose
        ELSE TestOpen \o testContent \o TestClose

\* lines 283-286
serializeTestEnd == TestEndOpen \o TestEndClose

-----------------------------------------------------------------------------
(* detectSyntaxFormat.  A text is a sequence of tokens: the comment        *)
(* delimiters, the keys and the literals true and false are one token      *)
(* each, everything else is one character per token.                       *)

Punctuation == {":", "\"", "'", "{", "}", "[", "]", "=", ",", ")", "\\"}

Delimiters ==
    UNION {{f.stepOpen[1], f.stepOpenTrimmed[1], f.stepClose[1], f.stepCloseTrimmed[1]} :
              f \in {COMMENT_FORMATS[k] : k \in DOMAIN COMMENT_FORMATS}}

\* the token matches \w+
IsWord(t) == t # UNDEF /\ ~IsSpace(t) /\ t \notin Punctuation /\ t \notin Delimiters

\* the token matches \d+
IsDigits(t) == t \in {"0", "1"}

\* the position after the longest run of \w from p on
RECURSIVE WordEnd(_, _)
WordEnd(c, p) == IF IsWord(At(c, p)) THEN WordEnd(c, p + 1) ELSE p

\* the position after the longest run of \s from p on
RECURSIVE SpaceEnd(_, _)
SpaceEnd(c, p) == IF IsSpace(At(c, p)) THEN SpaceEnd(c, p + 1) ELSE p

\* String.prototype.trim
RECURSIVE TrimEnd(_)
TrimEnd(c) ==
    IF c # <<>> /\ IsSpace(c[Len(c)]) THEN TrimEnd(SubSeq(c, 1, Len(c) - 1)) ELSE c

Trim(c) == TrimEnd(Substring(c, SpaceEnd(c, 0), Len(c)))

\* lines 70-80: content.match(/<opener>\s+([\s\S]*?)\s*<closer>/) of one comment
\* format; the capture, trimmed, when the expression matches, else the content
StripWrapper(c, fmt) ==
    LET f == COMMENT_FORMATS[fmt]
        opens == {p \in 0..(Len(c) - 1) :
                     \/ At(c, p) = f.stepOpen[1]
                     \/ At(c, p) = f.stepOpenTrimmed[1] /\ IsSpace(At(c, p + 1))}
        closes(p) == {q \in (p + 1)..(Len(c) - 1) :
                        At(c, q) \in {f.stepClose[1], f.stepCloseTrimmed[1]}}
        matching == {p \in opens : closes(p) # {}}
    IN  IF matching = {} THEN c
        ELSE LET p == CHOOSE x \in matching : \A y \in matching : x <= y
                 q == CHOOSE x \in closes(p) : \A y \in closes(p) : x <= y
             IN  Trim(Substring(c, p + 1, q))

\* line 83: /^"?\w+"?\s*:\s*[{["']/
JsonKeyPattern(c) ==
    LET p0 == IF At(c, 0) = "\"" THEN 1 ELSE 0
        p1 == WordEnd(c, p0)
        p2 == IF At(c, p1) = "\"" THEN p1 + 1 ELSE p1
        p3 == SpaceEnd(c, p2)
        p4 == SpaceEnd(c, p3 + 1)
    IN  p1 > p0 /\ At(c, p3) = ":" /\ At(c, p4) \in {"{", "[", "\"", "'"}

\* line 88: /^\w+\s*=\s*["']?[^{]/ ; the spaces and the quote are optional,
\* so the token after the = sign decides
XmlQuotedPattern(c) ==
    LET p1 == WordEnd(c, 0)
        p2 == SpaceEnd(c, p1)
    IN  p1 > 0 /\ At(c, p2) = "=" /\ At(c, p2 + 1) \notin {UNDEF, "{"}

\* line 88: /^\w+\s*=\s*(?:true|false|\d+)/
XmlLiteralPattern(c) ==
    LET p1 == WordEnd(c, 0)
        p2 == SpaceEnd(c, p1)
        p3 == SpaceEnd(c, p2 + 1)
    IN  p1 > 0 /\ At(c, p2) = "=" /\ (At(c, p3) \in {"true", "false"} \/ IsDigits(At(c, p3)))

\* line 93: /^\w+:\s*\n/
YamlKeyLinePattern(c) ==
    LET p1 == WordEnd(c, 0)
    IN  /\ p1 > 0 /\ At(c, p1) = ":"
        /\ \E q \in (p1 + 1)..(SpaceEnd(c, p1 + 1) - 1) : At(c, q) = NL

\* line 93: /\n\s+\w+:/
YamlNestedPattern(c) ==
    \E p \in 0..(Len(c) - 1) :
        /\ At(c, p) = NL
        /\ SpaceEnd(c, p + 1) > p + 1
        /\ WordEnd(c, SpaceEnd(c, p + 1)) > SpaceEnd(c, p + 1)
        /\ At(c, WordEnd(c, SpaceEnd(c, p + 1))) = ":"

\* line 94: /^\w+:\s+[^{]/
YamlValuePattern(c) ==
    LET p1 == WordEnd(c, 0)
        p2 == SpaceEnd(c, p1 + 1)
    IN  /\ p1 > 0 /\ At(c, p1) = ":"
        /\ \/ p2 >= p1 + 3
           \/ p2 = p1 + 2 /\ At(c, p2) \notin {UNDEF, "{"}

\* content.includes('{')
IncludesBrace(c) == \E i \in 1..Len(c) : c[i] = "{"

\* lines 64-99
detectSyntaxFormat(originalText) ==
    IF originalText = <<>> THEN "null"
    ELSE LET stripped ==
                 StripWrapper(StripWrapper(StripWrapper(StripWrapper(
                     Trim(originalText), "htmlComment"), "jsxComment"),
                     "xmlProcessingInstruction"), "asciidocComment")
         IN  IF At(stripped, 0) = "{" \/ JsonKeyPattern(stripped) THEN "json"
             ELSE IF XmlQuotedPattern(stripped) \/ XmlLiteralPattern(stripped) THEN "xml"
             ELSE IF \/ YamlKeyLinePattern(stripped)
                     \/ YamlNestedPattern(stripped)
                     \/ YamlValuePattern(stripped) /\ ~IncludesBrace(stripped)
                  THEN "yaml"
             ELSE "json"

-----------------------------------------------------------------------------
(* generateUpdates *)

\* the step object of a step of the matcher: its action field, or a
\* description only when it has no action
StepObject(step) ==
    IF step.action = NoAction
    THEN <<Field("description", [kind |-> "string", s |-> <<"d">>])>>
    ELSE <<Field(step.action, step.value)>>

\* serializeStepToInline returns for this step
CanSerialize(step) == ~SerializeStepThrows(StepObject(step))

\* test.testId || test.description
HasMeta(test) == test.testId # ""

\* contentMatch?.offset ?? suggestedOffset ?? 0
StartOffsetOf(e) ==
    IF IsMatched(e) THEN e.contentMatch[1].offset
    ELSE IF e.suggestedOffset # Undefined THEN e.suggestedOffset ELSE 0

\* contentMatch?.endOffset ?? suggestedOffset ?? 0
EndOffsetOf(e) ==
    IF IsMatched(e) THEN e.contentMatch[1].endOffset
    ELSE IF e.suggestedOffset # Undefined THEN e.suggestedOffset ELSE 0

Update(offset, text, after, type) ==
    [offset |-> offset, newContent |-> text, insertAfter |-> after, type |-> type, id |-> 0]

generateUpdates(ms, test) ==
    (IF HasMeta(test)
     THEN <<Update(StartOffsetOf(ms[1]), serializeTestToInline(test), FALSE, "testStart")>>
     ELSE <<>>)
    \o [k \in 1..Len(ms) |->
          Update(EndOffsetOf(ms[k]), serializeStepToInline(StepObject(ms[k].step), "asciidocComment", "json"),
                 IsMatched(ms[k]), "step")]
    \o (IF HasMeta(test)
        THEN <<Update(EndOffsetOf(ms[Len(ms)]) + 1, serializeTestEnd, TRUE, "testEnd")>>
        ELSE <<>>)

\* every update carries its position in the list as its id
WithIds(us) ==
    [i \in 1..Len(us) |-> [offset |-> us[i].offset, newContent |-> us[i].newContent,
                           insertAfter |-> us[i].insertAfter, type |-> us[i].type,
                           id |-> i]]

-----------------------------------------------------------------------------
(* injectInlineTests *)

FindA == [action |-> "find", value |-> Str(<<"a">>)]
FindBA == [action |-> "find", value |-> Str(<<"b", SP, "a">>)]
ClickA == [action |-> "click", value |-> Str(<<"a">>)]
OnlyMetadata == [action |-> NoAction, value |-> Obj]

StepLists ==
    { <<>>, <<FindA>>, <<FindA, ClickA>>, <<ClickA, FindA>>, <<FindBA, FindA>>,
      <<FindA, OnlyMetadata>> }

TestLists == SeqsUpTo([testId : {"", "t"}, steps : StepLists], MaxTests)

InjectDocs ==
    { <<>>,
      <<"a", NL>>,
      <<"*", "a", "*", NL>>,
      <<"*", "a", "*", NL, "*", "b", SP, "a", "*">>,
      <<SP, "*", "a", "*", SP, "*", "a", "*", NL>> }

Configs == {"none", "custom", "badRegex"}

ShouldWriteAlways(flag) == TRUE

\* line 500: if (apply)
ShouldWrite(flag) == flag

InjectInit ==
    /\ file \in InjectDocs
    /\ original = file
    /\ writes = 0
    /\ apply \in BOOLEAN
    /\ spec = <<>>
    /\ config = "none"
    /\ patterns = <<>>
    /\ sourceContent = <<>>
    /\ found = <<>>
    /\ allUpdates = <<>>
    /\ ti = 0
    /\ bound = <<>>
    /\ ipc = "parseSpec"
    /\ BatchIdle
    /\ MatchIdle
    /\ SerialIdle
    /\ ScanIdle
    /\ McpIdle
    /\ ExecIdle

Goto(to) ==
    /\ ipc' = to
    /\ UNCHANGED <<batchVars, matchVars, serialVars, scanVars, mcpVars, execVars>>

\* line 442: parseTestSpec returns the spec
ParseSpecOk ==
    /\ ipc = "parseSpec"
    /\ spec' \in TestLists
    /\ Goto("readSource")
    /\ UNCHANGED <<bound, file, original, writes, apply, config, patterns, sourceContent, found,
                   allUpdates, ti>>

\* line 442: readFileSync, JSON.parse or parseYaml throws
ParseSpecThrows ==
    /\ ipc = "parseSpec"
    /\ Goto("failed")
    /\ UNCHANGED <<bound, file, original, writes, apply, spec, config, patterns, sourceContent,
                   found, allUpdates, ti>>

\* line 443: readFileSync(sourcePath) returns the file's content
ReadSourceOk ==
    /\ ipc = "readSource"
    /\ sourceContent' = file
    /\ Goto("loadConfig")
    /\ UNCHANGED <<bound, file, original, writes, apply, spec, config, patterns, found,
                   allUpdates, ti>>

\* line 443: readFileSync(sourcePath) throws
ReadSourceThrows ==
    /\ ipc = "readSource"
    /\ Goto("failed")
    /\ UNCHANGED <<bound, file, original, writes, apply, spec, config, patterns, sourceContent,
                   found, allUpdates, ti>>

\* line 446: loadConfig returns null or the parsed config
LoadConfigOk ==
    /\ ipc = "loadConfig"
    /\ config' \in Configs
    /\ Goto("patterns")
    /\ UNCHANGED <<bound, file, original, writes, apply, spec, patterns, sourceContent, found,
                   allUpdates, ti>>

\* line 446: loadConfig throws on a config file it cannot parse
LoadConfigThrows ==
    /\ ipc = "loadConfig"
    /\ Goto("failed")
    /\ UNCHANGED <<bound, file, original, writes, apply, spec, config, patterns, sourceContent,
                   found, allUpdates, ti>>

\* line 454: getMarkupPatterns returns the merged patterns
GetPatternsOk ==
    /\ ipc = "patterns"
    /\ config # "badRegex"
    /\ patterns' = getMarkupPatterns(config)
    /\ Goto("scan")
    /\ UNCHANGED <<bound, file, original, writes, apply, spec, config, sourceContent, found,
                   allUpdates, ti>>

\* lines 200, 209: new RegExp throws on a custom pattern that does not compile
GetPatternsThrows ==
    /\ ipc = "patterns"
    /\ config = "badRegex"
    /\ Goto("failed")
    /\ UNCHANGED <<bound, file, original, writes, apply, spec, config, patterns, sourceContent,
                   found, allUpdates, ti>>

\* line 457
ScanSource ==
    /\ ipc = "scan"
    /\ found' = findContentMatches(sourceContent, patterns)
    /\ Goto("tests")
    /\ UNCHANGED <<bound, file, original, writes, apply, spec, config, patterns, sourceContent,
                   allUpdates, ti>>

\* line 468: a test without steps is skipped
SkipEmptyTest ==
    /\ ipc = "tests"
    /\ ti < Len(spec)
    /\ Len(spec[ti + 1].steps) = 0
    /\ ti' = ti + 1
    /\ UNCHANGED <<bound, file, original, writes, apply, spec, config, patterns, sourceContent,
                   found, allUpdates, ipc>>
    /\ UNCHANGED <<batchVars, matchVars, serialVars, scanVars, mcpVars, execVars>>

\* lines 471-484: the steps of one test are matched and its updates appended
ProcessTest ==
    /\ ipc = "tests"
    /\ ti < Len(spec)
    /\ Len(spec[ti + 1].steps) > 0
    /\ \A k \in 1..Len(spec[ti + 1].steps) : CanSerialize(spec[ti + 1].steps[k])
    /\ allUpdates' =
          allUpdates \o generateUpdates(matchStepsToContent(spec[ti + 1].steps, found),
                                        spec[ti + 1])
    /\ bound' = Append(bound, BoundIndexes(matchStepsToContent(spec[ti + 1].steps, found)))
    /\ ti' = ti + 1
    /\ UNCHANGED <<file, original, writes, apply, spec, config, patterns, sourceContent,
                   found, ipc>>
    /\ UNCHANGED <<batchVars, matchVars, serialVars, scanVars, mcpVars, execVars>>

\* line 483: generateUpdates throws out of serializeStepToInline
ProcessTestThrows ==
    /\ ipc = "tests"
    /\ ti < Len(spec)
    /\ \E k \in 1..Len(spec[ti + 1].steps) : ~CanSerialize(spec[ti + 1].steps[k])
    /\ Goto("failed")
    /\ UNCHANGED <<bound, file, original, writes, apply, spec, config, patterns, sourceContent,
                   found, allUpdates, ti>>

\* lines 487-498: the loop is over, the unmatched steps are reported
TestsDone ==
    /\ ipc = "tests"
    /\ ti >= Len(spec)
    /\ Goto("finish")
    /\ UNCHANGED <<bound, file, original, writes, apply, spec, config, patterns, sourceContent,
                   found, allUpdates, ti>>

\* lines 500-510: batchUpdateContent and writeFileSync
ApplyChanges ==
    /\ ipc = "finish"
    /\ ShouldWrite(apply)
    /\ file' = batchUpdateContent(sourceContent, WithIds(allUpdates))
    /\ writes' = writes + 1
    /\ Goto("done")
    /\ UNCHANGED <<bound, original, apply, spec, config, patterns, sourceContent, found,
                   allUpdates, ti>>

\* lines 511-519: the preview is printed
Preview ==
    /\ ipc = "finish"
    /\ ~ShouldWrite(apply)
    /\ Goto("done")
    /\ UNCHANGED <<bound, file, original, writes, apply, spec, config, patterns, sourceContent,
                   found, allUpdates, ti>>

InjectNext ==
    \/ ParseSpecOk \/ ParseSpecThrows
    \/ ReadSourceOk \/ ReadSourceThrows
    \/ LoadConfigOk \/ LoadConfigThrows
    \/ GetPatternsOk \/ GetPatternsThrows
    \/ ScanSource
    \/ SkipEmptyTest \/ ProcessTest \/ ProcessTestThrows
    \/ TestsDone
    \/ ApplyChanges \/ Preview

SpecInject == InjectInit /\ [][InjectNext]_vars

-----------------------------------------------------------------------------
(* Claims about the injection run *)

\* C5: the source file is written only in apply mode, exactly once, and only
\* after the updates of every test were computed without error; in preview
\* mode and in every failed run the file's content is what it was.
C5_WriteOnlyAtEndOfApply ==
    /\ writes <= 1
    /\ writes = 1 => (apply /\ ipc = "done" /\ ti = Len(spec))
    /\ (ipc = "done" /\ apply) => writes = 1
    /\ (~apply \/ ipc # "done") => (writes = 0 /\ file = original)

\* an apply run failed on a step that cannot be serialized after the updates
\* of an earlier test had been computed
C5_Witness ==
    /\ apply
    /\ ipc = "failed"
    /\ allUpdates # <<>>
    /\ ti < Len(spec)
    /\ batchUpdateContent(sourceContent, WithIds(allUpdates)) # file

\* C21: in one run of injectInlineTests no content match is bound by two
\* steps, also not by steps of two different tests of the spec.
C21_NoMatchReuseAcrossTests ==
    \A a, b \in 1..Len(bound) : a # b => bound[a] \cap bound[b] = {}

\* an exception left injectInlineTests: the function has no try/catch, every
\* throw inside it propagates to its caller
Thrown == ipc = "failed"

\* C15: every error of the pipeline (unreadable spec or source, a step with no
\* action key, an invalid custom pattern) reaches the caller as a result value:
\* no exception leaves serializeStepToInline, generateUpdates or
\* injectInlineTests.
C15_NoExceptionLeavesTheRun == ~Thrown

\* the patterns that are left when the pattern of the config "badRegex" that
\* does not compile is skipped: the built-in ones
RemainingPatterns == AsciidocPatterns

\* C16: when one configured custom pattern does not compile, only that pattern
\* is skipped: the run goes on to scan with all the remaining patterns.
C16_BadPatternSkipped ==
    (config = "badRegex" /\ ipc # "patterns")
        => patterns = RemainingPatterns

-----------------------------------------------------------------------------
(* The placement of one test: findContentMatches, matchStepsToContent,     *)
(* generateUpdates and batchUpdateContent run one after the other on one   *)
(* document, as lines 457-505 of injectInlineTests run them.               *)

PlaceStepLists == SeqsUpTo({FindA, FindBA, ClickA}, MaxSteps) \ {<<>>}

PlaceConfigs == {"none", "custom"}

\* lines 443-457: the source is read and scanned; line 471 enters the matcher
PlaceInit ==
    /\ content \in InjectDocs
    /\ spec \in {<<t>> : t \in [testId : {"", "t"}, steps : PlaceStepLists]}
    /\ config \in PlaceConfigs
    /\ steps = spec[1].steps
    /\ contentMatches = findContentMatches(content, getMarkupPatterns(config))
    /\ matchedSteps = <<>>
    /\ usedMatches = {}
    /\ mi = 0
    /\ mpc = "loop"
    /\ updates = <<>> /\ sortedUpdates = <<>> /\ result = <<>> /\ origin = <<>>
    /\ bk = 1 /\ bpc = "off"
    /\ file = <<>> /\ original = <<>> /\ writes = 0 /\ apply = TRUE
    /\ patterns = <<>> /\ sourceContent = <<>> /\ found = <<>>
    /\ allUpdates = <<>> /\ ti = 0 /\ bound = <<>> /\ ipc = "off"
    /\ SerialIdle
    /\ ScanIdle
    /\ McpIdle
    /\ ExecIdle

\* lines 483-484 and 502-505: the updates of the test become the batch
PlaceGenerate ==
    /\ mpc = "done"
    /\ bpc = "off"
    /\ updates' = WithIds(generateUpdates(matchedSteps, spec[1]))
    /\ bpc' = "idle"
    /\ UNCHANGED <<content, sortedUpdates, result, origin, bk>>
    /\ UNCHANGED <<matchVars, injectVars, serialVars, scanVars, mcpVars, execVars>>

PlaceNext ==
    \/ MatchStep \/ MatchReturn
    \/ PlaceGenerate
    \/ BatchStart \/ BatchApply \/ BatchReturn

SpecPlace == PlaceInit /\ [][PlaceNext]_vars

-----------------------------------------------------------------------------
(* Claims about the placement *)

\* C25: every update that generateUpdates produces for assignments computed
\* over a document of length n (step updates, test-start and test-end
\* markers) has 0 <= offset <= n, also when the match of the last step ends at
\* the very end of the document.
C25_GeneratedOffsetsInBounds ==
    bpc # "off"
        => \A i \in 1..Len(updates) :
              0 <= updates[i].offset /\ updates[i].offset <= Len(content)

\* the id of the update generateUpdates pushes for step k (1-based)
StepUpdateId(k) == IF HasMeta(spec[1]) THEN k + 1 ELSE k

\* the positions of `result` that hold the text inserted for the update `id`
SegmentOf(id) == {p \in 1..Len(result) : origin[p] = 0 - id}

\* every position of A lies before every position of B
AllBefore(A, B) == \A p \in A, q \in B : p < q

\* the positions of `result` that hold the characters a..(b - 1) of `content`
OriginalAt(a, b) == {p \in 1..Len(result) : origin[p] >= a /\ origin[p] < b}

\* the positions of `result` that hold characters of `content`
OriginalText == OriginalAt(0, Len(content))

\* C11: in the document produced by generateUpdates and batchUpdateContent the
\* annotation of an unmatched step comes after the annotation and after the
\* content line of the last matched step before it in the step list; when no
\* earlier step was matched it comes before all of the document's text.
C11_UnmatchedAfterLastMatched ==
    (bpc = "done" /\ mpc = "done")
        => \A k \in 1..Len(matchedSteps) :
              ~IsMatched(matchedSteps[k])
                  => LET seg == SegmentOf(StepUpdateId(k))
                     IN  /\ seg # {}
                         /\ IF MatchedBefore(k) = {}
                            THEN AllBefore(seg, OriginalText)
                            ELSE LET l == LastAccepted(k)
                                     m == matchedSteps[l].contentMatch[1]
                                 IN  /\ AllBefore(SegmentOf(StepUpdateId(l)), seg)
                                     /\ AllBefore(OriginalAt(m.offset, m.endOffset), seg)

\* C12: for a test with a testId the test-start marker precedes every step
\* annotation of the test and the test-end marker follows every one of them,
\* for every mix of matched and unmatched steps and every binding order.
C12_MarkersBracketSteps ==
    (bpc = "done" /\ mpc = "done" /\ HasMeta(spec[1]))
        => \A k \in 1..Len(matchedSteps) :
              /\ SegmentOf(1) # {}
              /\ SegmentOf(Len(updates)) # {}
              /\ AllBefore(SegmentOf(1), SegmentOf(StepUpdateId(k)))
              /\ AllBefore(SegmentOf(StepUpdateId(k)), SegmentOf(Len(updates)))

\* the document offers, in the order of the steps, one exact-value same-action
\* match per step
OneExactMatchPerStepInOrder ==
    /\ Len(contentMatches) = Len(steps)
    /\ \A k \in 1..Len(steps) :
          calculateSimilarity(steps[k], contentMatches[k]) = ScoreExact
    /\ \A k \in 1..(Len(steps) - 1) :
          contentMatches[k].offset < contentMatches[k + 1].offset

\* the annotation of step k starts a line of its own, and the text of the
\* original document nearest before it is the end of the line of match m
DirectlyAfterLineOf(k, m) ==
    LET seg == SegmentOf(StepUpdateId(k))
        le == findLineEnd(content, m.endOffset)
    IN  /\ seg # {}
        /\ \A p \in seg : p > 1
        /\ \A p \in seg : (p - 1) \notin seg => result[p - 1] = NL
        /\ AllBefore(OriginalAt(0, le), seg)
        /\ AllBefore(seg, OriginalAt(le, Len(content)))

\* C20: when the document offers, in the order of the steps, one exact-value
\* same-action match per step, step k is bound to match k (the first with
\* score 1.0, each later one with 1.0 + 0.2), and in the document produced by
\* generateUpdates and batchUpdateContent the step annotations stand in step
\* order, each directly after the line of its match.
C20_InOrderExactMatches ==
    OneExactMatchPerStepInOrder
        => /\ \A k \in 1..Len(matchedSteps) :
                 /\ IsMatched(matchedSteps[k])
                 /\ matchedSteps[k].contentMatch[1].matchIndex = k - 1
                 /\ matchedSteps[k].score
                       = (IF k = 1 THEN ScoreExact ELSE ScoreExact + SeqBonus)
           /\ bpc = "done"
                 => /\ \A k \in 1..Len(steps) :
                          DirectlyAfterLineOf(k, contentMatches[k])
                    /\ \A k \in 1..(Len(steps) - 1) :
                          AllBefore(SegmentOf(StepUpdateId(k)),
                                    SegmentOf(StepUpdateId(k + 1)))

\* C19: among the unused candidates of a step, one with a strictly higher
\* value similarity (exact 1.0 over contains 0.8 over action-only 0.3) is bound
\* in preference to one with a lower similarity; the sequential bonus or
\* penalty only decides between candidates of equal similarity.
C19_HigherSimilarityPreferred ==
    \A k \in 1..Len(matchedSteps) :
        IsMatched(matchedSteps[k])
            => \A j \in Candidates(k) :
                  calculateSimilarity(steps[k], contentMatches[j + 1])
                      <= calculateSimilarity(steps[k], matchedSteps[k].contentMatch[1])

-----------------------------------------------------------------------------
(* serializeStepToInline called on one step object *)

\* the fields a step of the model can have
FieldPool ==
    { Field("stepId", Str(<<>>)), Field("stepId", Str(<<"s">>)),
      Field("description", Str(<<"d">>)),
      Field("unsafe", Bool("true")), Field("unsafe", Bool("false")),
      Field("find", Str(<<"a">>)), Field("find", Str(<<"a", ":", "b">>)),
      Field("find", Num("1")),
      Field("find", Bool("true")), Field("find", Obj),
      Field("selector", Str(<<"b">>)),
      Field("sourceLocation", Obj) }

\* an object has every key once
DistinctKeys(obj) == \A i, j \in 1..Len(obj) : i # j => obj[i].key # obj[j].key

StepObjects == {obj \in SeqsUpTo(FieldPool, MaxFields) : DistinctKeys(obj)}

SerialInit ==
    /\ sstep \in StepObjects
    /\ sformat \in DOMAIN COMMENT_FORMATS
    /\ ssyntax \in {"json", "yaml", "xml"}
    /\ sout = <<>>
    /\ spc = "call"
    /\ BatchIdle
    /\ MatchIdle
    /\ InjectIdle
    /\ ScanIdle
    /\ McpIdle
    /\ ExecIdle

\* lines 215-247: the function returns the annotation
SerializeReturns ==
    /\ spc = "call"
    /\ ~SerializeStepThrows(sstep)
    /\ sout' = serializeStepToInline(sstep, sformat, ssyntax)
    /\ spc' = "returned"
    /\ UNCHANGED <<sstep, sformat, ssyntax>>
    /\ UNCHANGED <<batchVars, matchVars, injectVars, scanVars, mcpVars, execVars>>

\* lines 229-231: throw new Error('Cannot serialize step: no action found')
SerializeThrows ==
    /\ spc = "call"
    /\ SerializeStepThrows(sstep)
    /\ spc' = "thrown"
    /\ UNCHANGED <<sstep, sformat, ssyntax, sout>>
    /\ UNCHANGED <<batchVars, matchVars, injectVars, scanVars, mcpVars, execVars>>

SerialNext == SerializeReturns \/ SerializeThrows

SpecSerialize == SerialInit /\ [][SerialNext]_vars

-----------------------------------------------------------------------------
(* Claims about serializeStepToInline *)

\* the fields of the step that are neither metadata nor sourceLocation
NonMetadataFields(step) ==
    SelectSeq(step, LAMBDA f : f.key \notin EXCLUDED_STEP_KEYS \cup {"sourceLocation"})

IsPrimitive(v) == v.kind \in {"string", "number", "boolean"}

\* the step has exactly one non-metadata field, and its value is primitive
OneSimpleField(step) ==
    Len(NonMetadataFields(step)) = 1 /\ IsPrimitive(NonMetadataFields(step)[1].val)

\* the annotation that holds {action: value} only
SimpleForm(step) ==
    WrapStep(COMMENT_FORMATS[sformat], serializeToSyntax(NonMetadataFields(step), ssyntax))

\* the annotation that holds every field of the step but sourceLocation
FullForm(step) ==
    WrapStep(COMMENT_FORMATS[sformat],
             serializeToSyntax(SelectSeq(step, LAMBDA f : f.key # "sourceLocation"), ssyntax))

\* the step carries metadata that the simple form would lose
CarriesMetadata(step) ==
    \E i \in 1..Len(step) :
        \/ step[i].key \in {"stepId", "description"} /\ Truthy(step[i].val)
        \/ step[i].key \in {"unsafe", "breakpoint"} /\ step[i].val = Bool("true")
        \/ /\ step[i].key \in {"outputs", "variables"}
           /\ step[i].val.kind \in {"string", "object"} /\ step[i].val.s # <<>>

\* C17 as stated: a step with exactly one non-metadata field of primitive value
\* is rendered as {action: value} only, its metadata (stepId, description)
\* dropped when present; every other step as the full object without
\* sourceLocation.
C17_SimpleFormDropsMetadata ==
    spc = "returned"
        => sout = (IF OneSimpleField(sstep) THEN SimpleForm(sstep) ELSE FullForm(sstep))

\* C17, amended: the simple form {action: value} is used only when, in
\* addition, the step carries no stepId, no description, no unsafe: true, no
\* non-empty outputs or variables and no breakpoint: true; every other step
\* that has an action, also one with a stepId or a description, is rendered as
\* the full object without sourceLocation.
C17_SimpleFormOnlyWithoutMetadata ==
    spc = "returned"
        => sout = (IF OneSimpleField(sstep) /\ ~CarriesMetadata(sstep)
                   THEN SimpleForm(sstep) ELSE FullForm(sstep))

\* a step with a stepId, one primitive action and a sourceLocation was rendered
\* in full, without its sourceLocation
C17_Witness ==
    /\ spc = "returned"
    /\ OneSimpleField(sstep)
    /\ HasTruthy(sstep, "stepId")
    /\ "sourceLocation" \in Keys(sstep)
    /\ sout = FullForm(sstep)
    /\ sout # SimpleForm(sstep)

\* C23: for every syntax s in {json, yaml, xml}, every comment format and every
\* step, detectSyntaxFormat applied to the annotation that
\* serializeStepToInline produces with syntax s returns s.
C23_DetectedSyntaxIsWrittenSyntax ==
    spc = "returned" => detectSyntaxFormat(sout) = ssyntax

-----------------------------------------------------------------------------
(* findContentMatches, one regex.exec at a time.  The regex objects belong *)
(* to the patterns and live on between the calls; each has the global flag *)
(* and so keeps its lastIndex.                                             *)

NoMatch == [index |-> 0 - 1, end |-> 0 - 1]

\* the number of "a" characters of c from position pos on
RECURSIVE RunOfA(_, _)
RunOfA(c, pos) == IF At(c, pos) = "a" THEN 1 + RunOfA(c, pos + 1) ELSE 0

\* RegExp.prototype.exec of a global regex from lastIndex `li`: the index and
\* the end of the first match at or after li, or NoMatch
\*   "star"  is /\*([^*]+)\*/g,  "astar" is /a*/g,  "never" matches nowhere
RegexExec(c, regex, li) ==
    IF li > Len(c) THEN NoMatch
    ELSE IF regex = "star"
    THEN LET starts == {p \in li..(Len(c) - 1) : StarMatchEnd(c, p) # NoMatchEnd}
         IN  IF starts = {} THEN NoMatch
             ELSE LET p == CHOOSE x \in starts : \A y \in starts : x <= y
                  IN  [index |-> p, end |-> StarMatchEnd(c, p)]
    ELSE IF regex = "astar" THEN [index |-> li, end |-> li + RunOfA(c, li)]
    ELSE NoMatch

\* lines 235-244: the match object pushed for one exec result
MatchObject(c, pattern, r) ==
    [action |-> pattern.action,
     capture |-> IF pattern.regex = "star" THEN Substring(c, r.index + 1, r.end - 1) ELSE <<>>,
     matchText |-> Substring(c, r.index, r.end),
     offset |-> r.index, endOffset |-> r.end]

\* a custom pattern whose regular expression matches the empty string
EmptyMatchingPatterns ==
    << [name |-> "custom", action |-> "find", regex |-> "astar"] >>

ScanPatternLists ==
    {AsciidocPatterns, AsciidocPatterns \o CustomPatterns,
     AsciidocPatterns \o EmptyMatchingPatterns}

ScanDocs == InjectDocs \cup {<<"a", "*", "b", "*">>, <<"*", "a", "*", "*", "b", "*", NL>>}

ScanInit ==
    /\ sdoc \in ScanDocs
    /\ spats \in ScanPatternLists
    /\ lastIndex = [i \in 1..Len(spats) |-> 0]
    /\ sp = 1
    /\ smatches = <<>>
    /\ scall = 1
    /\ sfirst = <<>>
    /\ scpc = IF Len(spats) > 0 THEN "reset" ELSE "sort"
    /\ BatchIdle
    /\ MatchIdle
    /\ InjectIdle
    /\ SerialIdle
    /\ McpIdle
    /\ ExecIdle

\* line 231: regex.lastIndex = 0
ScanReset ==
    /\ scpc = "reset"
    /\ lastIndex' = [lastIndex EXCEPT ![sp] = 0]
    /\ scpc' = "exec"
    /\ UNCHANGED <<sdoc, spats, sp, smatches, scall, sfirst>>
    /\ UNCHANGED <<batchVars, matchVars, injectVars, serialVars, mcpVars, execVars>>

\* lines 234-245: regex.exec found a match; it is pushed
ScanExecMatch ==
    /\ scpc = "exec"
    /\ Len(smatches) < MaxFound
    /\ LET r == RegexExec(sdoc, spats[sp].regex, lastIndex[sp])
       IN  /\ r # NoMatch
           /\ smatches' = Append(smatches, MatchObject(sdoc, spats[sp], r))
           /\ lastIndex' = [lastIndex EXCEPT ![sp] = r.end]
    /\ UNCHANGED <<sdoc, spats, sp, scall, sfirst, scpc>>
    /\ UNCHANGED <<batchVars, matchVars, injectVars, serialVars, mcpVars, execVars>>

\* line 234: regex.exec returns null and sets lastIndex to 0; the next pattern
ScanExecNull ==
    /\ scpc = "exec"
    /\ RegexExec(sdoc, spats[sp].regex, lastIndex[sp]) = NoMatch
    /\ lastIndex' = [lastIndex EXCEPT ![sp] = 0]
    /\ IF sp < Len(spats)
       THEN sp' = sp + 1 /\ scpc' = "reset"
       ELSE sp' = sp /\ scpc' = "sort"
    /\ UNCHANGED <<sdoc, spats, smatches, scall, sfirst>>
    /\ UNCHANGED <<batchVars, matchVars, injectVars, serialVars, mcpVars, execVars>>

\* lines 250-252: matches.sort(...); return matches
ScanSortReturn ==
    /\ scpc = "sort"
    /\ smatches' = SortAsc(smatches)
    /\ scpc' = "done"
    /\ UNCHANGED <<sdoc, spats, lastIndex, sp, scall, sfirst>>
    /\ UNCHANGED <<batchVars, matchVars, injectVars, serialVars, mcpVars, execVars>>

\* the caller calls findContentMatches again, same text, same pattern objects
ScanAgain ==
    /\ scpc = "done"
    /\ scall = 1
    /\ sfirst' = smatches
    /\ scall' = 2
    /\ smatches' = <<>>
    /\ sp' = 1
    /\ scpc' = IF Len(spats) > 0 THEN "reset" ELSE "sort"
    /\ UNCHANGED <<sdoc, spats, lastIndex>>
    /\ UNCHANGED <<batchVars, matchVars, injectVars, serialVars, mcpVars, execVars>>

ScanNext ==
    \/ ScanReset \/ ScanExecMatch \/ ScanExecNull \/ ScanSortReturn \/ ScanAgain

SpecScan == ScanInit /\ [][ScanNext]_vars

-----------------------------------------------------------------------------
(* Claims about findContentMatches *)

SortedByOffset(ms) ==
    \A i \in 1..(Len(ms) - 1) : ms[i].offset <= ms[i + 1].offset

\* C22: findContentMatches returns its matches sorted by ascending start
\* offset, and a second call with the same text and the same pattern objects
\* returns the identical list: the regex objects carry no scanning state
\* (lastIndex is 0) from one call to the next.
C22_SortedAndIdempotent ==
    scpc = "done"
        => /\ SortedByOffset(smatches)
           /\ \A i \in 1..Len(spats) : lastIndex[i] = 0
           /\ scall = 2 => smatches = sfirst
           /\ smatches = findContentMatches(sdoc, spats)

\* the second call returned, and the sort had to move a match of a later
\* pattern in front of a match of an earlier one
C22_Witness ==
    /\ scpc = "done"
    /\ scall = 2
    /\ Len(smatches) >= 3
    /\ \E i \in 1..(Len(smatches) - 1) :
          /\ smatches[i].action = "click" /\ smatches[i + 1].action = "find"
          /\ smatches[i].offset < smatches[i + 1].offset

\* C28: findContentMatches terminates, also with a custom pattern whose regex
\* can match the empty string: each iteration of its exec loop (each match
\* pushed) advances the scan position of the regex.
C28_EveryIterationAdvances ==
    [][Len(smatches') = Len(smatches) + 1 => lastIndex'[sp] > lastIndex[sp]]_vars

-----------------------------------------------------------------------------
(* injectComments of the MCP inject tool (tools/inject.ts).  The document  *)
(* is the sequence of its lines; a line is its words, with `orig` its      *)
(* number in the original document (0 for an inserted comment) and `on`    *)
(* the `orig` of the line whose match placed the comment.                  *)

ClickWords == {"click", "tap", "press", "select"}
FindWords == {"find", "verify", "see", "check"}

\* lines 156-183: the step has a pattern
HasPattern(step) == step.action \in {"goTo", "click", "find"}

\* the pattern of the step matches inside the line: the expressions have no
\* flag that lets `.` cross a newline
PatternMatchesLine(step, text) ==
    IF step.action = "goTo" THEN \E i \in 1..Len(text) : text[i] = step.target
    ELSE LET words == IF step.action = "click" THEN ClickWords ELSE FindWords
         IN  \E i \in 1..Len(text) : \E j \in (i + 1)..Len(text) :
                text[i] \in words /\ text[j] = step.target

\* lines 204-211: yaml.dump(stepObj).trim(), objectToXml(stepObj), JSON.stringify
McpStepContent(step, syn) ==
    IF syn = "yaml" THEN <<step.action, ":", SP, step.target>>
    ELSE IF syn = "xml" THEN <<"<", step.action, ">", step.target, "</", step.action, ">">>
    ELSE <<"{", "\"", step.action, "\"", ":", "\"", step.target, "\"", "}">>

\* lines 188-223
generateComment(step, fmt, syn) ==
    IF fmt = "asciidoc" THEN <<"// doc-detective-test: ">> \o McpStepContent(step, syn)
    ELSE <<"<!-- doc-detective-test: ">> \o McpStepContent(step, syn) \o <<" -->">>

\* lines 118-127: the steps of all tests that have a pattern, in order
RECURSIVE StepsWithPattern(_)
StepsWithPattern(tests) ==
    IF tests = <<>> THEN <<>>
    ELSE SelectSeq(Head(tests), HasPattern) \o StepsWithPattern(Tail(tests))

\* modifiedContent.match(pattern): the first line the pattern matches in, or 0
FirstMatchingLine(lines, step) ==
    LET hits == {p \in 1..Len(lines) : PatternMatchesLine(step, lines[p].text)}
    IN  IF hits = {} THEN 0 ELSE CHOOSE p \in hits : \A q \in hits : p <= q

\* lines 141-144: the comment becomes the line before line p
InsertLineBefore(lines, p, line) ==
    SubSeq(lines, 1, p - 1) \o <<line>> \o SubSeq(lines, p, Len(lines))

McpStepPool ==
    { [action |-> "goTo", target |-> "u"],
      [action |-> "click", target |-> "a"],
      [action |-> "find", target |-> "a"],
      [action |-> "type", target |-> "a"] }

McpLinePool ==
    { <<"open", "u">>, <<"click", "a">>, <<"see", "a">>, <<"b">> }

McpDocs ==
    {[p \in 1..Len(ls) |-> [text |-> ls[p], orig |-> p, on |-> 0]] :
        ls \in SeqsUpTo(McpLinePool, MaxLines)}

McpInit ==
    /\ mcpSpec \in SeqsUpTo(SeqsUpTo(McpStepPool, MaxUpdates), MaxTests)
    /\ mcpFormat \in {"markdown", "asciidoc"}
    /\ mcpSyntax \in {"json", "yaml", "xml"}
    /\ modifiedContent \in McpDocs
    /\ stepsToInject = <<>>
    /\ commentsAdded = 0
    /\ sk = 0
    /\ jpc = "build"
    /\ BatchIdle
    /\ MatchIdle
    /\ InjectIdle
    /\ SerialIdle
    /\ ScanIdle
    /\ ExecIdle

\* lines 112-127
McpBuild ==
    /\ jpc = "build"
    /\ stepsToInject' = StepsWithPattern(mcpSpec)
    /\ jpc' = "loop"
    /\ UNCHANGED <<mcpSpec, mcpFormat, mcpSyntax, modifiedContent, commentsAdded, sk>>
    /\ UNCHANGED <<batchVars, matchVars, injectVars, serialVars, scanVars, execVars>>

\* lines 130-147: the pattern matches; the comment is inserted and counted
McpInsert ==
    /\ jpc = "loop"
    /\ sk < Len(stepsToInject)
    /\ LET step == stepsToInject[sk + 1]
           p == FirstMatchingLine(modifiedContent, step)
       IN  /\ p # 0
           /\ modifiedContent' =
                 InsertLineBefore(modifiedContent, p,
                     [text |-> generateComment(step, mcpFormat, mcpSyntax), orig |-> 0,
                      on |-> modifiedContent[p].orig])
    /\ commentsAdded' = commentsAdded + 1
    /\ sk' = sk + 1
    /\ UNCHANGED <<mcpSpec, mcpFormat, mcpSyntax, stepsToInject, jpc>>
    /\ UNCHANGED <<batchVars, matchVars, injectVars, serialVars, scanVars, execVars>>

\* lines 131-132: the pattern matches nowhere
McpNoMatch ==
    /\ jpc = "loop"
    /\ sk < Len(stepsToInject)
    /\ FirstMatchingLine(modifiedContent, stepsToInject[sk + 1]) = 0
    /\ sk' = sk + 1
    /\ UNCHANGED <<mcpSpec, mcpFormat, mcpSyntax, stepsToInject, modifiedContent, commentsAdded, jpc>>
    /\ UNCHANGED <<batchVars, matchVars, injectVars, serialVars, scanVars, execVars>>

\* line 150
McpReturn ==
    /\ jpc = "loop"
    /\ sk >= Len(stepsToInject)
    /\ jpc' = "done"
    /\ UNCHANGED <<mcpSpec, mcpFormat, mcpSyntax, stepsToInject, modifiedContent, commentsAdded, sk>>
    /\ UNCHANGED <<batchVars, matchVars, injectVars, serialVars, scanVars, execVars>>

McpNext == McpBuild \/ McpInsert \/ McpNoMatch \/ McpReturn

SpecMcp == McpInit /\ [][McpNext]_vars

\* the comments placed by a match in an original line
OnOriginalLines ==
    {p \in 1..Len(modifiedContent) :
        modifiedContent[p].orig = 0 /\ modifiedContent[p].on > 0}

\* C29: injectComments inserts the comment of each step directly before a line
\* of the original document that matches the step's pattern: the text of a
\* comment inserted earlier is never matched by the pattern of a later step,
\* and inline_comments_added counts only placements on original lines.
C29_CommentsOnOriginalLines ==
    /\ \A p \in 1..Len(modifiedContent) :
          modifiedContent[p].orig = 0 => modifiedContent[p].on > 0
    /\ commentsAdded = Cardinality(OnOriginalLines)

-----------------------------------------------------------------------------
(* runDocDetective of the MCP execute tool: the handlers of the child's    *)
(* events and the two timers, each run to completion, in every order the   *)
(* event loop can deliver them.  The values of the promise are             *)
(*   "executed"        success: true, the parsed or raw output             *)
(*   "skipped"         createSimulatedResult, success: true                *)
(*   "failedToExecute" createSimulatedResult, success: false               *)
(*   "timedOut"        success: false, 'Execution timed out after ...'     *)

\* resolve(value): only the first call settles the promise
Resolve(value) ==
    /\ promise' = IF promise = "pending" THEN value ELSE promise
    /\ resolveCalls' = resolveCalls + 1
    /\ firstOutcome' = IF resolveCalls = 0 THEN value ELSE firstOutcome

\* lines 230-260: the spec file can be read and parsed, or not
SimulatedResults == {"skipped", "failedToExecute"}

\* a child process exists and its close event has not been delivered
ChildOpen == proc \in {"running", "killed", "exited"}

\* lines 90-112 and 168: the promise is created, spawn is called, both timers
\* are armed with options.timeout
ExecInit ==
    /\ proc = "spawning"
    /\ exitCode = "none"
    /\ stdout = 0
    /\ stderr = 0
    /\ spawnTimer = "armed"
    /\ timer = "armed"
    /\ promise = "pending"
    /\ resolveCalls = 0
    /\ firstOutcome = "pending"
    /\ openAtTimeout = FALSE
    /\ BatchIdle
    /\ MatchIdle
    /\ InjectIdle
    /\ SerialIdle
    /\ ScanIdle
    /\ McpIdle

\* the child process starts
ExecSpawned ==
    /\ proc = "spawning"
    /\ proc' = "running"
    /\ UNCHANGED <<exitCode, stdout, stderr, spawnTimer, timer, promise, resolveCalls,
                   firstOutcome, openAtTimeout>>
    /\ UNCHANGED <<batchVars, matchVars, injectVars, serialVars, scanVars, mcpVars>>

\* lines 122-125: spawn fails, the 'error' handler runs
ExecError ==
    /\ proc = "spawning"
    /\ proc' = "failed"
    /\ spawnTimer' = "cleared"
    /\ \E r \in SimulatedResults : Resolve(r)
    /\ UNCHANGED <<exitCode, stdout, stderr, timer, openAtTimeout>>
    /\ UNCHANGED <<batchVars, matchVars, injectVars, serialVars, scanVars, mcpVars>>

\* lines 114-116: proc.stdout.on('data')
ExecStdout ==
    /\ proc \in {"running", "killed", "exited"}
    /\ stdout < MaxChunks
    /\ stdout' = stdout + 1
    /\ UNCHANGED <<proc, exitCode, stderr, spawnTimer, timer, promise, resolveCalls,
                   firstOutcome, openAtTimeout>>
    /\ UNCHANGED <<batchVars, matchVars, injectVars, serialVars, scanVars, mcpVars>>

\* lines 118-120: proc.stderr.on('data')
ExecStderr ==
    /\ proc \in {"running", "killed", "exited"}
    /\ stderr < MaxChunks
    /\ stderr' = stderr + 1
    /\ UNCHANGED <<proc, exitCode, stdout, spawnTimer, timer, promise, resolveCalls,
                   firstOutcome, openAtTimeout>>
    /\ UNCHANGED <<batchVars, matchVars, injectVars, serialVars, scanVars, mcpVars>>

\* the child exits by itself; the exit clears the timer of spawn's timeout
ExecChildExits ==
    /\ proc = "running"
    /\ proc' = "exited"
    /\ exitCode' \in {"0", "1"}
    /\ spawnTimer' = IF spawnTimer = "armed" THEN "cleared" ELSE spawnTimer
    /\ UNCHANGED <<stdout, stderr, timer, promise, resolveCalls, firstOutcome, openAtTimeout>>
    /\ UNCHANGED <<batchVars, matchVars, injectVars, serialVars, scanVars, mcpVars>>

\* line 106: the timeout of spawn elapses, the runtime kills the child
ExecSpawnTimeout ==
    /\ spawnTimer = "armed"
    /\ proc = "running"
    /\ spawnTimer' = "fired"
    /\ proc' = "killed"
    /\ openAtTimeout' = TRUE
    /\ UNCHANGED <<exitCode, stdout, stderr, timer, promise, resolveCalls, firstOutcome>>
    /\ UNCHANGED <<batchVars, matchVars, injectVars, serialVars, scanVars, mcpVars>>

\* the killed child exits: its exit code is null
ExecKilledExits ==
    /\ proc = "killed"
    /\ proc' = "exited"
    /\ exitCode' = "null"
    /\ spawnTimer' = IF spawnTimer = "armed" THEN "cleared" ELSE spawnTimer
    /\ UNCHANGED <<stdout, stderr, timer, promise, resolveCalls, firstOutcome, openAtTimeout>>
    /\ UNCHANGED <<batchVars, matchVars, injectVars, serialVars, scanVars, mcpVars>>

\* lines 127-165: the 'close' handler
ExecClose ==
    /\ proc = "exited"
    /\ proc' = "closed"
    /\ IF exitCode = "0" THEN Resolve("executed")
       ELSE \E r \in SimulatedResults : Resolve(r)
    /\ UNCHANGED <<exitCode, stdout, stderr, spawnTimer, timer, openAtTimeout>>
    /\ UNCHANGED <<batchVars, matchVars, injectVars, serialVars, scanVars, mcpVars>>

\* lines 168-174: the callback of setTimeout: proc.kill(), resolve(...)
ExecTimeout ==
    /\ timer = "armed"
    /\ proc # "spawning"
    /\ timer' = "fired"
    /\ proc' = IF proc = "running" THEN "killed" ELSE proc
    /\ openAtTimeout' = (openAtTimeout \/ ChildOpen)
    /\ Resolve("timedOut")
    /\ UNCHANGED <<exitCode, stdout, stderr, spawnTimer>>
    /\ UNCHANGED <<batchVars, matchVars, injectVars, serialVars, scanVars, mcpVars>>

ExecNext ==
    \/ ExecSpawned \/ ExecError \/ ExecStdout \/ ExecStderr \/ ExecChildExits
    \/ ExecSpawnTimeout \/ ExecKilledExits \/ ExecClose \/ ExecTimeout

SpecExec == ExecInit /\ [][ExecNext]_vars

\* C30: runDocDetective resolves exactly once, with the outcome of whichever of
\* the spawn-error, close and timeout events occurs first, later events never
\* change the result, and whenever the child process has not closed by the time
\* the timeout elapses the result is success=false 'Execution timed out', in
\* every order of the spawn timeout kill, the close event and the timer
\* callback.
C30_TimeoutDecidesOpenChild ==
    /\ resolveCalls > 0 => promise = firstOutcome
    /\ (openAtTimeout /\ promise # "pending") => promise = "timedOut"

=============================================================================
